---- MODULE Spec2Model ----
(***************************************************************************)
(* Commit tracker: the record store (data_writer.py), the extractor        *)
(* (git_parser.py) and the orchestrator (commit_tracker.py).               *)
(*                                                                         *)
(* Python values are tagged records [t, s, l, n]: t is the Python type,    *)
(* s the characters of a str, l the items of a list/tuple of str, n an     *)
(* int.  A str is a sequence of one-character strings, except that the     *)
(* fixed pieces of a date ("2023-01-0", "T12:00:00", "+00:00", ...) are    *)
(* single tokens.  A dict is a function whose DOMAIN is its key set.       *)
(***************************************************************************)
EXTENDS Integers, Sequences, FiniteSets, TLC

\* ------------------------------------------------------------------ bounds
MaxLog == 3
MaxTracked == 2
MaxRetries == 2

\* ------------------------------------------------------------ Python values
PyNone == [t |-> "none", s |-> <<>>, l |-> <<>>, n |-> 0]
PyStr(cs) == [t |-> "str", s |-> cs, l |-> <<>>, n |-> 0]
PyInt(k) == [t |-> "int", s |-> <<>>, l |-> <<>>, n |-> k]
PyList(xs) == [t |-> "list", s |-> <<>>, l |-> xs, n |-> 0]
PyTuple(xs) == [t |-> "tuple", s |-> <<>>, l |-> xs, n |-> 0]

\* len(x) for the values that have a length
PyLen(v) == IF v.t = "str" THEN Len(v.s) ELSE Len(v.l)

Reverse(q) == [i \in 1..Len(q) |-> q[Len(q) + 1 - i]]

\* ------------------------------------------------------------------ strings
LowerChar(c) ==
  CASE c = "J" -> "j"
    [] c = "D" -> "d"
    [] c = "S" -> "s"
    [] c = "F" -> "f"
    [] c = "A" -> "a"
    [] c = "M" -> "m"
    [] c = "I" -> "i"
    [] c = "N" -> "n"
    [] OTHER -> c

\* str.lower()
Lower(cs) == [i \in 1..Len(cs) |-> LowerChar(cs[i])]

\* needle in hay (Python substring test on str)
Contains(hay, needle) ==
  \E i \in 0..(Len(hay) - Len(needle)) :
     \A j \in 1..Len(needle) : hay[i + j] = needle[j]

\* str.replace('Z', '+00:00')
ReplaceZ(cs) == [i \in 1..Len(cs) |-> IF cs[i] = "Z" THEN "+00:00" ELSE cs[i]]

\* ------------------------------------------------------------------- dates
DatePrefix == "2023-01-0"
DayChars == {"1", "2", "3"}
DayNum(c) == CASE c = "1" -> 1 [] c = "2" -> 2 [] c = "3" -> 3 [] OTHER -> 0
TimeTokens == {"T00:00:00", "T12:00:00"}
TimeNum(c) == IF c = "T12:00:00" THEN 1 ELSE 0

\* datetime.fromisoformat: [ok, aware, at]; ok = FALSE is ValueError
BadDate == [ok |-> FALSE, aware |-> FALSE, at |-> 0]
FromIsoFormat(cs) ==
  IF Len(cs) \in 2..4 /\ cs[1] = DatePrefix /\ cs[2] \in DayChars
     /\ (Len(cs) >= 3 => cs[3] \in TimeTokens)
     /\ (Len(cs) = 4 => cs[4] = "+00:00")
  THEN [ok |-> TRUE, aware |-> Len(cs) = 4,
        at |-> 2 * DayNum(cs[2]) + (IF Len(cs) >= 3 THEN TimeNum(cs[3]) ELSE 0)]
  ELSE BadDate

\* --------------------------------------------------------------- JSON lines
\* json.dumps of one Python value: list and tuple both become an array
JsonOf(v) ==
  CASE v.t = "none" -> [t |-> "null", s |-> <<>>, l |-> <<>>, n |-> 0]
    [] v.t = "str" -> [t |-> "string", s |-> v.s, l |-> <<>>, n |-> 0]
    [] v.t = "int" -> [t |-> "number", s |-> <<>>, l |-> <<>>, n |-> v.n]
    [] OTHER -> [t |-> "array", s |-> <<>>, l |-> v.l, n |-> 0]

\* json.loads of one JSON value
PyOf(j) ==
  CASE j.t = "null" -> PyNone
    [] j.t = "string" -> PyStr(j.s)
    [] j.t = "number" -> PyInt(j.n)
    [] OTHER -> PyList(j.l)

\* mutation of Dumps: keys whose value is None are not written
DumpsSkipNull(d) == [k \in {f \in DOMAIN d : d[f].t # "none"} |-> JsonOf(d[k])]

\* jsonlines Writer.write: one JSON object per line
Dumps(d) == [k \in DOMAIN d |-> JsonOf(d[k])]

\* jsonlines Reader iteration: one dict per line
Loads(line) == [k \in DOMAIN line |-> PyOf(line[k])]

\* what a write that was cut short leaves at the end of the file: the first
\* bytes of a JSON object, without its end and without the newline
TornLine == [torn |-> [t |-> "open", s |-> <<>>, l |-> <<>>, n |-> 0]]

\* what the next write makes of a torn line: its own JSON text and newline
\* glued on the bytes that were left
GluedLine == [torn |-> [t |-> "closed", s |-> <<>>, l |-> <<>>, n |-> 0]]

\* json.loads inside the jsonlines Reader accepts the line; otherwise the
\* Reader raises InvalidLineError
IsJson(line) == "torn" \notin DOMAIN line

\* bytes written in mode 'a' land after the last byte of the file: on a new
\* line, or on the torn line when the file ends in one
AppendLine(lines, line) ==
  IF lines # <<>> /\ lines[Len(lines)] = TornLine
  THEN [lines EXCEPT ![Len(lines)] = GluedLine]
  ELSE Append(lines, line)

\* ------------------------------------------------------------ dict helpers
\* dict.get(k, default)
Get(d, k, default) == IF k \in DOMAIN d THEN d[k] ELSE default

\* Python truthiness of a value
Truthy(v) ==
  CASE v.t = "none" -> FALSE
    [] v.t = "str" -> Len(v.s) > 0
    [] v.t = "int" -> v.n # 0
    [] OTHER -> Len(v.l) > 0

\* ------------------------------------------------------------- validation
RequiredFields == <<"id", "hash", "author", "message", "timestamp", "changed_files">>

\* mutation of RequiredLoop: only the presence of the key is tested
RECURSIVE RequiredLoopPresentOnly(_, _)
RequiredLoopPresentOnly(d, i) ==
  IF i > Len(RequiredFields) THEN "ok"
  ELSE IF RequiredFields[i] \notin DOMAIN d THEN "ValueError"
  ELSE RequiredLoopPresentOnly(d, i + 1)

\* the for loop over required_fields: the first field that is missing or None
RECURSIVE RequiredLoop(_, _)
RequiredLoop(d, i) ==
  IF i > Len(RequiredFields) THEN "ok"
  ELSE IF RequiredFields[i] \notin DOMAIN d THEN "ValueError"
  ELSE IF d[RequiredFields[i]].t = "none" THEN "ValueError"
  ELSE RequiredLoop(d, i + 1)

\* mutation of ValidateCommitData: the timestamp is not parsed
ValidateCommitDataNoTimestamp(d) ==
  IF RequiredLoop(d, 1) # "ok" THEN RequiredLoop(d, 1)
  ELSE IF d["id"].t # "str" \/ Len(d["id"].s) # 36 THEN "ValueError"
  ELSE IF d["hash"].t # "str" \/ Len(d["hash"].s) < 7 THEN "ValueError"
  ELSE IF d["changed_files"].t # "list" THEN "ValueError"
  ELSE "ok"

\* DataWriter._validate_commit_data: "ok" or the exception type raised
ValidateCommitData(d) ==
  IF RequiredLoop(d, 1) # "ok" THEN RequiredLoop(d, 1)
  ELSE IF d["id"].t # "str" \/ Len(d["id"].s) # 36 THEN "ValueError"
  ELSE IF d["hash"].t # "str" \/ Len(d["hash"].s) < 7 THEN "ValueError"
  ELSE IF d["timestamp"].t # "str" THEN "AttributeError"
  ELSE IF ~FromIsoFormat(ReplaceZ(d["timestamp"].s)).ok THEN "ValueError"
  ELSE IF d["changed_files"].t # "list" THEN "ValueError"
  ELSE "ok"

\* ------------------------------------------------------------- the store
\* commit_data.get('hash', 'unknown')[:8] in the log message of write_commit
HashSliceRaises(d) == "hash" \in DOMAIN d /\ d["hash"].t \in {"none", "int"}

\* outcomes of the file system during one write_commit
IoOutcomes == {"ok", "touch_fail", "open_fail"}

\* mutation of WriteCommit: the file is opened with mode 'w'
WriteCommitTruncating(st, d, io) ==
  IF HashSliceRaises(d)
  THEN [status |-> "error", error_type |-> "TypeError", store |-> st]
  ELSE IF ValidateCommitData(d) # "ok"
  THEN [status |-> "error", error_type |-> ValidateCommitData(d), store |-> st]
  ELSE IF ~st.exists /\ io = "touch_fail"
  THEN [status |-> "error", error_type |-> "OSError", store |-> st]
  ELSE IF io = "open_fail"
  THEN [status |-> "error", error_type |-> "OSError",
        store |-> [st EXCEPT !.exists = TRUE]]
  ELSE [status |-> "success", error_type |-> "",
        store |-> [exists |-> TRUE, lines |-> <<Dumps(d)>>]]

\* DataWriter.write_commit on store st = [exists, lines] with file-system
\* outcome io: the result dict and the store afterwards
WriteCommit(st, d, io) ==
  IF HashSliceRaises(d)
  THEN [status |-> "error", error_type |-> "TypeError", store |-> st]
  ELSE IF ValidateCommitData(d) # "ok"
  THEN [status |-> "error", error_type |-> ValidateCommitData(d), store |-> st]
  ELSE IF ~st.exists /\ io = "touch_fail"
  THEN [status |-> "error", error_type |-> "OSError", store |-> st]
  ELSE IF io = "open_fail"
  THEN [status |-> "error", error_type |-> "OSError",
        store |-> [st EXCEPT !.exists = TRUE]]
  ELSE [status |-> "success", error_type |-> "",
        store |-> [exists |-> TRUE, lines |-> AppendLine(st.lines, Dumps(d))]]

\* the reader loop of read_commits: the commits read until the limit stops
\* the loop, or "raised" when the Reader meets a line that is not JSON
RECURSIVE ReadLoop(_, _, _, _)
ReadLoop(lines, i, commits, limit) ==
  IF i > Len(lines) THEN [raised |-> FALSE, commits |-> commits]
  ELSE IF ~IsJson(lines[i]) THEN [raised |-> TRUE, commits |-> <<>>]
  ELSE LET next == Append(commits, Loads(lines[i]))
       IN IF Truthy(limit) /\ Len(next) >= limit.n
          THEN [raised |-> FALSE, commits |-> next]
          ELSE ReadLoop(lines, i + 1, next, limit)

\* mutation of ReadCommits: the list is returned in file order
ReadCommitsUnreversed(st, limit) ==
  IF ~st.exists THEN [status |-> "success", commits |-> <<>>]
  ELSE LET r == ReadLoop(st.lines, 1, <<>>, limit)
       IN IF r.raised THEN [status |-> "error", commits |-> <<>>]
          ELSE [status |-> "success", commits |-> r.commits]

\* DataWriter.read_commits(limit): limit is PyNone or PyInt(k)
ReadCommits(st, limit) ==
  IF ~st.exists THEN [status |-> "success", commits |-> <<>>]
  ELSE LET r == ReadLoop(st.lines, 1, <<>>, limit)
       IN IF r.raised THEN [status |-> "error", commits |-> <<>>]
          ELSE [status |-> "success", commits |-> Reverse(r.commits)]

\* mutation of GetCommitCount: the count is the index of the last line read
GetCommitCountLastIndex(st) ==
  IF ~st.exists THEN [status |-> "success", count |-> 0]
  ELSE IF \E i \in 1..Len(st.lines) : ~IsJson(st.lines[i])
  THEN [status |-> "error", count |-> 0]
  ELSE [status |-> "success",
        count |-> IF st.lines = <<>> THEN 0 ELSE Len(st.lines) - 1]

\* DataWriter.get_commit_count: the Reader raises on a line that is not JSON
GetCommitCount(st) ==
  IF ~st.exists THEN [status |-> "success", count |-> 0]
  ELSE IF \E i \in 1..Len(st.lines) : ~IsJson(st.lines[i])
  THEN [status |-> "error", count |-> 0]
  ELSE [status |-> "success", count |-> Len(st.lines)]

\* --------------------------------------------------------------- searching
EmptyStr == PyStr(<<>>)

\* mutation of Supplied: a key that is present counts, whatever its value
SuppliedIfPresent(criteria, k) == k \in DOMAIN criteria

\* "key in criteria and criteria[key]"
Supplied(criteria, k) == k \in DOMAIN criteria /\ Truthy(criteria[k])

\* the author block of _matches_criteria: "pass", "nomatch" or "raise"
AuthorPart(commit, criteria) ==
  IF ~Supplied(criteria, "author") THEN "pass"
  ELSE LET a == Lower(criteria["author"].s)
           name == Get(commit, "author", EmptyStr)
           email == Get(commit, "author_email", EmptyStr)
       IN IF name.t # "str" THEN "raise"
          ELSE IF Contains(Lower(name.s), a) THEN "pass"
          ELSE IF email.t # "str" THEN "raise"
          ELSE IF Contains(Lower(email.s), a) THEN "pass"
          ELSE "nomatch"

\* the message block
MessagePart(commit, criteria) ==
  IF ~Supplied(criteria, "message") THEN "pass"
  ELSE LET msg == Get(commit, "message", EmptyStr)
       IN IF msg.t # "str" THEN "raise"
          ELSE IF Contains(Lower(msg.s), Lower(criteria["message"].s)) THEN "pass"
          ELSE "nomatch"

\* mutation of DatePart: the bounds are exclusive
DatePartExclusive(commit, criteria, key) ==
  IF ~Supplied(criteria, key) THEN "pass"
  ELSE LET cd == Get(commit, "commit_date", EmptyStr)
       IN IF cd.t # "str" THEN "raise"
          ELSE LET commit_date == FromIsoFormat(ReplaceZ(cd.s))
                   bound == FromIsoFormat(ReplaceZ(criteria[key].s))
               IN IF ~commit_date.ok THEN "pass"
                  ELSE IF ~bound.ok THEN "pass"
                  ELSE IF commit_date.aware # bound.aware THEN "raise"
                  ELSE IF key = "date_from" /\ commit_date.at <= bound.at THEN "nomatch"
                  ELSE IF key = "date_to" /\ commit_date.at >= bound.at THEN "nomatch"
                  ELSE "pass"

\* mutation of DatePart: a commit_date that does not parse fails the block
DatePartFailClosed(commit, criteria, key) ==
  IF ~Supplied(criteria, key) THEN "pass"
  ELSE LET cd == Get(commit, "commit_date", EmptyStr)
       IN IF cd.t # "str" THEN "raise"
          ELSE LET commit_date == FromIsoFormat(ReplaceZ(cd.s))
                   bound == FromIsoFormat(ReplaceZ(criteria[key].s))
               IN IF ~commit_date.ok THEN "nomatch"
                  ELSE IF ~bound.ok THEN "pass"
                  ELSE IF commit_date.aware # bound.aware THEN "raise"
                  ELSE IF key = "date_from" /\ commit_date.at < bound.at THEN "nomatch"
                  ELSE IF key = "date_to" /\ commit_date.at > bound.at THEN "nomatch"
                  ELSE "pass"

\* one date block; key is "date_from" or "date_to".  ValueError is swallowed
\* (pass); AttributeError (commit_date not a str) and TypeError (naive
\* against aware) are not
DatePart(commit, criteria, key) ==
  IF ~Supplied(criteria, key) THEN "pass"
  ELSE LET cd == Get(commit, "commit_date", EmptyStr)
       IN IF cd.t # "str" THEN "raise"
          ELSE LET commit_date == FromIsoFormat(ReplaceZ(cd.s))
                   bound == FromIsoFormat(ReplaceZ(criteria[key].s))
               IN IF ~commit_date.ok THEN "pass"
                  ELSE IF ~bound.ok THEN "pass"
                  ELSE IF commit_date.aware # bound.aware THEN "raise"
                  ELSE IF key = "date_from" /\ commit_date.at < bound.at THEN "nomatch"
                  ELSE IF key = "date_to" /\ commit_date.at > bound.at THEN "nomatch"
                  ELSE "pass"

\* the files block: any(criteria in file.lower() for file in changed_files)
FilesPart(commit, criteria) ==
  IF ~Supplied(criteria, "files") THEN "pass"
  ELSE LET files == Get(commit, "changed_files", PyList(<<>>))
           f == Lower(criteria["files"].s)
       IN IF files.t \in {"none", "int"} THEN "raise"
          ELSE IF files.t = "str"
          THEN IF \E i \in 1..Len(files.s) : Contains(Lower(<<files.s[i]>>), f)
               THEN "pass" ELSE "nomatch"
          ELSE IF \E i \in 1..Len(files.l) : Contains(Lower(files.l[i]), f)
               THEN "pass" ELSE "nomatch"

\* mutation of MatchesCriteria: the first supplied block alone decides
MatchesCriteriaFirstOnly(commit, criteria) ==
  IF Supplied(criteria, "author")
  THEN (IF AuthorPart(commit, criteria) = "pass" THEN "match"
        ELSE AuthorPart(commit, criteria))
  ELSE IF Supplied(criteria, "message")
  THEN (IF MessagePart(commit, criteria) = "pass" THEN "match"
        ELSE MessagePart(commit, criteria))
  ELSE "match"

\* DataWriter._matches_criteria: "match", "nomatch" or "raise"; the blocks run
\* in order and the first one that does not pass decides
MatchesCriteria(commit, criteria) ==
  LET parts == << AuthorPart(commit, criteria),
                  MessagePart(commit, criteria),
                  DatePart(commit, criteria, "date_from"),
                  DatePart(commit, criteria, "date_to"),
                  FilesPart(commit, criteria) >>
      stop == {i \in 1..5 : parts[i] # "pass"}
  IN IF stop = {} THEN "match"
     ELSE parts[CHOOSE i \in stop : \A j \in stop : i <= j]

\* the reader loop of search_commits: the matches so far, or "raise"
RECURSIVE SearchLoop(_, _, _, _)
SearchLoop(lines, i, matching, criteria) ==
  IF i > Len(lines) THEN [raised |-> FALSE, commits |-> matching]
  ELSE IF ~IsJson(lines[i]) THEN [raised |-> TRUE, commits |-> <<>>]
  ELSE LET commit == Loads(lines[i])
           m == MatchesCriteria(commit, criteria)
       IN IF m = "raise" THEN [raised |-> TRUE, commits |-> <<>>]
          ELSE SearchLoop(lines, i + 1,
                 IF m = "match" THEN Append(matching, commit) ELSE matching,
                 criteria)

\* mutation of SearchCommits: the matches are returned in file order
SearchCommitsUnreversed(st, criteria) ==
  IF ~st.exists THEN [status |-> "success", commits |-> <<>>]
  ELSE LET r == SearchLoop(st.lines, 1, <<>>, criteria)
       IN IF r.raised THEN [status |-> "error", commits |-> <<>>]
          ELSE [status |-> "success", commits |-> r.commits]

\* mutation of SearchCommits: the file is opened without the existence check
SearchCommitsNoFileCheck(st, criteria) ==
  IF ~st.exists THEN [status |-> "error", commits |-> <<>>]
  ELSE LET r == SearchLoop(st.lines, 1, <<>>, criteria)
       IN IF r.raised THEN [status |-> "error", commits |-> <<>>]
          ELSE [status |-> "success", commits |-> Reverse(r.commits)]

\* DataWriter.search_commits
SearchCommits(st, criteria) ==
  IF ~st.exists THEN [status |-> "success", commits |-> <<>>]
  ELSE LET r == SearchLoop(st.lines, 1, <<>>, criteria)
       IN IF r.raised THEN [status |-> "error", commits |-> <<>>]
          ELSE [status |-> "success", commits |-> Reverse(r.commits)]

\* ------------------------------------------------------------ the extractor
Whitespace == {" ", "\n"}

\* str.strip()
RECURSIVE LStrip(_)
LStrip(cs) == IF cs # <<>> /\ Head(cs) \in Whitespace THEN LStrip(Tail(cs)) ELSE cs
RECURSIVE RStrip(_)
RStrip(cs) ==
  IF cs # <<>> /\ cs[Len(cs)] \in Whitespace
  THEN RStrip(SubSeq(cs, 1, Len(cs) - 1)) ELSE cs
Strip(cs) == RStrip(LStrip(cs))

\* '\n'.join(lines)
RECURSIVE JoinLines(_)
JoinLines(ls) ==
  IF ls = <<>> THEN <<>>
  ELSE IF Len(ls) = 1 THEN ls[1]
  ELSE ls[1] \o <<"\n">> \o JoinLines(Tail(ls))

\* the times of day git prints, and their ISO form
NativeTimes == {" 00:00:00 2023", " 12:00:00 2023"}
IsoTime(c) == IF c = " 12:00:00 2023" THEN "T12:00:00" ELSE "T00:00:00"

\* mutation of FormatCommitDate: a date that does not reparse is dropped
FormatCommitDateOrEmpty(cs) ==
  IF Len(cs) = 4 /\ cs[1] = "Mon Jan " /\ cs[2] \in DayChars
     /\ cs[3] \in NativeTimes /\ cs[4] = " +0000"
  THEN <<DatePrefix, cs[2], IsoTime(cs[3]), "+00:00">>
  ELSE <<>>

\* datetime.strptime(s, '%a %b %d %H:%M:%S %Y %z').isoformat(), or the raw
\* string when strptime raises ValueError
FormatCommitDate(cs) ==
  IF Len(cs) = 4 /\ cs[1] = "Mon Jan " /\ cs[2] \in DayChars
     /\ cs[3] \in NativeTimes /\ cs[4] = " +0000"
  THEN <<DatePrefix, cs[2], IsoTime(cs[3]), "+00:00">>
  ELSE cs

\* the git invocations the extractor issues
GitCommands == {"rev-parse", "cat-file", "show-format", "show-name-only", "show-stat"}

\* GitParser._get_commit_metadata on the lines of the git show output;
\* fewer than five lines is an IndexError
GetCommitMetadata(meta) ==
  IF Len(meta) < 5 THEN [raised |-> TRUE, data |-> [k \in {} |-> PyNone]]
  ELSE [raised |-> FALSE,
        data |-> [hash |-> PyStr(meta[1]),
                  author |-> PyStr(meta[2]),
                  author_email |-> PyStr(meta[3]),
                  commit_date |-> PyStr(FormatCommitDate(meta[4])),
                  message |-> PyStr(meta[5]),
                  body |-> PyStr(Strip(JoinLines(SubSeq(meta, 6, Len(meta)))))]]

\* the list comprehension of _get_changed_files
RECURSIVE StripNonBlank(_)
StripNonBlank(ls) ==
  IF ls = <<>> THEN <<>>
  ELSE IF Strip(Head(ls)) # <<>> THEN <<Strip(Head(ls))>> \o StripNonBlank(Tail(ls))
  ELSE StripNonBlank(Tail(ls))

\* GitParser._get_changed_files: a failed invocation is swallowed into []
GetChangedFiles(env) ==
  IF "show-name-only" \in env.failing THEN <<>>
  ELSE StripNonBlank(env.out.names)

\* int(''.join(filter(str.isdigit, part))): -1 stands for the ValueError of int('')
RECURSIVE DigitsValue(_)
DigitsValue(ds) ==
  IF ds = <<>> THEN 0 ELSE 10 * DigitsValue(SubSeq(ds, 1, Len(ds) - 1)) + ds[Len(ds)]
IntOfDigits(part) == IF part.digits = <<>> THEN -1 ELSE DigitsValue(part.digits)

\* 'insertions' in part, 'deletions' in part
HasInsertions(part) == part.word = " insertions(+)"
HasDeletions(part) == part.word = " deletions(-)"

\* the inner loop over line.split(','): [ins, del, raised]
RECURSIVE PartsLoop(_, _, _)
PartsLoop(parts, i, acc) ==
  IF i > Len(parts) THEN acc
  ELSE IF HasInsertions(parts[i])
  THEN IF IntOfDigits(parts[i]) < 0 THEN [acc EXCEPT !.raised = TRUE]
       ELSE PartsLoop(parts, i + 1, [acc EXCEPT !.ins = IntOfDigits(parts[i])])
  ELSE IF HasDeletions(parts[i])
  THEN IF IntOfDigits(parts[i]) < 0 THEN [acc EXCEPT !.raised = TRUE]
       ELSE PartsLoop(parts, i + 1, [acc EXCEPT !.del = IntOfDigits(parts[i])])
  ELSE PartsLoop(parts, i + 1, acc)

\* the loop over the lines of the --stat output: only a line that holds both
\* words is parsed, and the loop stops there
RECURSIVE StatLinesLoop(_, _)
StatLinesLoop(lines, i) ==
  IF i > Len(lines) THEN [ins |-> 0, del |-> 0, raised |-> FALSE]
  ELSE IF (\E k \in 1..Len(lines[i]) : HasInsertions(lines[i][k]))
          /\ (\E k \in 1..Len(lines[i]) : HasDeletions(lines[i][k]))
  THEN PartsLoop(lines[i], 1, [ins |-> 0, del |-> 0, raised |-> FALSE])
  ELSE StatLinesLoop(lines, i + 1)

\* GitParser._get_commit_stats: every exception is swallowed into (0, 0)
GetCommitStats(env) ==
  IF "show-stat" \in env.failing THEN [insertions |-> 0, deletions |-> 0]
  ELSE LET r == StatLinesLoop(env.out.stat, 1)
       IN IF r.raised THEN [insertions |-> 0, deletions |-> 0]
          ELSE [insertions |-> r.ins, deletions |-> r.del]

\* the body shared by get_latest_commit and get_commit_by_hash after the
\* commit has been identified: metadata, changed files, statistics
\* mutation of ExtractCommit: the metadata command is issued a second time
ExtractCommitRetrying(env, before) ==
  IF "show-format" \in env.failing
  THEN [raised |-> TRUE, data |-> [k \in {} |-> PyNone],
        calls |-> before \o <<"show-format", "show-format">>]
  ELSE LET m == GetCommitMetadata(env.out.meta)
       IN IF m.raised
          THEN [raised |-> TRUE, data |-> m.data, calls |-> before \o <<"show-format">>]
          ELSE LET stats == GetCommitStats(env)
               IN [raised |-> FALSE,
                   data |-> [hash |-> m.data.hash,
                             author |-> m.data.author,
                             author_email |-> m.data.author_email,
                             commit_date |-> m.data.commit_date,
                             message |-> m.data.message,
                             body |-> m.data.body,
                             changed_files |-> PyList(GetChangedFiles(env)),
                             insertions |-> PyInt(stats.insertions),
                             deletions |-> PyInt(stats.deletions)],
                   calls |-> before \o <<"show-format", "show-name-only", "show-stat">>]

ExtractCommit(env, before) ==
  IF "show-format" \in env.failing
  THEN [raised |-> TRUE, data |-> [k \in {} |-> PyNone],
        calls |-> before \o <<"show-format">>]
  ELSE LET m == GetCommitMetadata(env.out.meta)
       IN IF m.raised
          THEN [raised |-> TRUE, data |-> m.data, calls |-> before \o <<"show-format">>]
          ELSE LET stats == GetCommitStats(env)
               IN [raised |-> FALSE,
                   data |-> [hash |-> m.data.hash,
                             author |-> m.data.author,
                             author_email |-> m.data.author_email,
                             commit_date |-> m.data.commit_date,
                             message |-> m.data.message,
                             body |-> m.data.body,
                             changed_files |-> PyList(GetChangedFiles(env)),
                             insertions |-> PyInt(stats.insertions),
                             deletions |-> PyInt(stats.deletions)],
                   calls |-> before \o <<"show-format", "show-name-only", "show-stat">>]

\* GitParser.get_latest_commit: any exception becomes GitCommandError
GetLatestCommit(env) ==
  IF "rev-parse" \in env.failing
  THEN [raised |-> TRUE, data |-> [k \in {} |-> PyNone], calls |-> <<"rev-parse">>]
  ELSE ExtractCommit(env, <<"rev-parse">>)

\* GitParser._commit_exists
CommitExists(env) == "cat-file" \notin env.failing

\* mutation of GetCommitByHash: the extraction runs without the existence check
GetCommitByHashUnchecked(env) == ExtractCommit(env, <<>>)

\* GitParser.get_commit_by_hash
GetCommitByHash(env) ==
  IF ~CommitExists(env)
  THEN [raised |-> TRUE, data |-> [k \in {} |-> PyNone], calls |-> <<"cat-file">>]
  ELSE ExtractCommit(env, <<"cat-file">>)

\* ---------------------------------------------------------- the orchestrator
\* str(uuid.uuid4()): 36 characters; k tells the generated values apart
UuidChars == <<"a", "b", "c", "d", "e", "f">>
UuidOf(c) == [i \in 1..36 |-> IF i \in {9, 14, 19, 24} THEN "-"
                              ELSE IF i = 36 THEN c ELSE "0"]
Uuid4(k) == UuidOf(UuidChars[k])

\* datetime.now(timezone.utc).isoformat()
NowIso == <<DatePrefix, "3", "T12:00:00", "+00:00">>

\* CommitTracker._validate_commit_data: "ok" or the exception type raised
TrackerRequired == <<"hash", "author", "message", "timestamp", "changed_files">>
TrackerValidate(d) ==
  IF \E i \in 1..Len(TrackerRequired) :
       TrackerRequired[i] \notin DOMAIN d \/ d[TrackerRequired[i]].t = "none"
  THEN "ValueError"
  ELSE IF d["hash"].t = "int" THEN "TypeError"
  ELSE IF PyLen(d["hash"]) < 7 THEN "ValueError"
  ELSE IF d["timestamp"].t # "str" THEN "AttributeError"
  ELSE IF ~FromIsoFormat(ReplaceZ(d["timestamp"].s)).ok THEN "ValueError"
  ELSE "ok"

NoDict == [k \in {} |-> PyNone]

\* commit_data['id'] = ...; commit_data['timestamp'] = ...
\* mutation of Stamp: the id is the same at every call
StampSameId(d, id) ==
  [k \in DOMAIN d \cup {"id", "timestamp"} |->
     IF k = "id" THEN PyStr(Uuid4(1))
     ELSE IF k = "timestamp" THEN PyStr(NowIso)
     ELSE d[k]]

Stamp(d, id) ==
  [k \in DOMAIN d \cup {"id", "timestamp"} |->
     IF k = "id" THEN PyStr(id)
     ELSE IF k = "timestamp" THEN PyStr(NowIso)
     ELSE d[k]]

\* mutation of LogCommit: the repository check is missing
LogCommitUnchecked(st, env, g, io, id) ==
  IF g.raised
  THEN [status |-> "error", error_type |-> "GitCommandError",
        commit_data |-> NoDict, calls |-> g.calls, wrote |-> "", store |-> st]
  ELSE LET data == Stamp(g.data, id)
       IN IF TrackerValidate(data) # "ok"
          THEN [status |-> "error", error_type |-> TrackerValidate(data),
                commit_data |-> NoDict, calls |-> g.calls, wrote |-> "", store |-> st]
          ELSE LET w == WriteCommit(st, data, io)
               IN [status |-> "success", error_type |-> "",
                   commit_data |-> data, calls |-> g.calls,
                   wrote |-> w.status, store |-> w.store]

\* the body shared by log_latest_commit and log_commit_by_hash; g is the
\* outcome of the extraction.  The dict returned by write_commit is dropped
\* by the caller; it is kept here in 'wrote' only to state properties
LogCommit(st, env, g, io, id) ==
  IF ~env.isRepo
  THEN [status |-> "error", error_type |-> "GitRepositoryError",
        commit_data |-> NoDict, calls |-> <<>>, wrote |-> "", store |-> st]
  ELSE IF g.raised
  THEN [status |-> "error", error_type |-> "GitCommandError",
        commit_data |-> NoDict, calls |-> g.calls, wrote |-> "", store |-> st]
  ELSE LET data == Stamp(g.data, id)
       IN IF TrackerValidate(data) # "ok"
          THEN [status |-> "error", error_type |-> TrackerValidate(data),
                commit_data |-> NoDict, calls |-> g.calls, wrote |-> "", store |-> st]
          ELSE LET w == WriteCommit(st, data, io)
               IN [status |-> "success", error_type |-> "",
                   commit_data |-> data, calls |-> g.calls,
                   wrote |-> w.status, store |-> w.store]

\* CommitTracker.log_latest_commit
LogLatestCommit(st, env, io, id) == LogCommit(st, env, GetLatestCommit(env), io, id)

\* CommitTracker.log_commit_by_hash
LogCommitByHash(st, env, io, id) == LogCommit(st, env, GetCommitByHash(env), io, id)

\* the four sub-queries of GitParser.get_repository_info
InfoCommands == {"config", "branch", "rev-list", "log"}

\* int(output.strip()) of _get_total_commits: ValueError gives 0
TotalCommits(env) ==
  IF "rev-list" \in env.failing THEN 0
  ELSE IF env.count = <<>> THEN 0
  ELSE DigitsValue(env.count)

\* mutation of ParserRepositoryInfo: one failed sub-query empties the whole result
ParserRepositoryInfoAllOrNothing(env) ==
  IF env.failing # {}
  THEN [remote_url |-> PyNone, current_branch |-> PyNone,
        total_commits |-> PyInt(0), last_commit_date |-> PyNone]
  ELSE [remote_url |-> PyStr(Strip(env.remote)),
        current_branch |-> PyStr(Strip(env.branch)),
        total_commits |-> PyInt(TotalCommits(env)),
        last_commit_date |-> PyStr(Strip(env.date))]

\* GitParser.get_repository_info
ParserRepositoryInfo(env) ==
  [remote_url |-> IF "config" \in env.failing THEN PyNone ELSE PyStr(Strip(env.remote)),
   current_branch |-> IF "branch" \in env.failing THEN PyNone ELSE PyStr(Strip(env.branch)),
   total_commits |-> PyInt(TotalCommits(env)),
   last_commit_date |-> IF "log" \in env.failing THEN PyNone ELSE PyStr(Strip(env.date))]

NoInfo == [remote_url |-> PyNone, current_branch |-> PyNone,
           total_commits |-> PyInt(0), last_commit_date |-> PyNone]

\* CommitTracker.get_repository_info
GetRepositoryInfo(env) ==
  IF ~env.isRepo
  THEN [status |-> "error", info |-> NoInfo, calls |-> <<>>]
  ELSE [status |-> "success", info |-> ParserRepositoryInfo(env),
        calls |-> <<"config", "branch", "rev-list", "log">>]

\* ------------------------------------------------------------- sample data
JohnDoe == <<"J", "o", "h", "n", " ", "D", "o", "e">>
JaneSmith == <<"J", "a", "n", "e", " ", "S", "m", "i", "t", "h">>
JohnSmith == <<"J", "o", "h", "n", " ", "S", "m", "i", "t", "h">>
FixBug == <<"F", "i", "x", " ", "b", "u", "g">>
AddFeature == <<"A", "d", "d", " ", "f", "e", "a", "t", "u", "r", "e">>
FixAnotherBug == <<"F", "i", "x", " ", "a", "n", "o", "t", "h", "e", "r", " ", "b", "u", "g">>
Hash1 == <<"h", "1", "0", "0", "0", "0", "0">>
Hash2 == <<"h", "2", "0", "0", "0", "0", "0">>
Hash3 == <<"h", "3", "0", "0", "0", "0", "0">>
Hash4 == <<"h", "4", "0", "0", "0", "0", "0">>
ShortHash == <<"h", "1", "0", "0", "0", "0">>
MainPy == <<"m", "a", "i", "n", ".", "p", "y">>
AuthPy == <<"A", "u", "t", "h", ".", "p", "y">>

IsoDay(c) == <<DatePrefix, c, "T12:00:00", "+00:00">>

\* a record as a caller of write_commit builds it (test_full_data_lifecycle)
Record(k, hash, author, email, day, message, files) ==
  [id |-> PyStr(UuidOf(k)), hash |-> PyStr(hash), author |-> PyStr(author),
   author_email |-> email, commit_date |-> PyStr(IsoDay(day)),
   message |-> PyStr(message), body |-> PyStr(<<>>),
   changed_files |-> PyList(files), insertions |-> PyInt(10),
   deletions |-> PyInt(5), timestamp |-> PyStr(IsoDay(day))]

R1 == Record("1", Hash1, JohnDoe, PyStr(<<"j", "d", "@", "x">>), "1", FixBug, <<AuthPy, MainPy>>)
R2 == Record("2", Hash2, JaneSmith, PyStr(<<"j", "s", "@", "x">>), "2", AddFeature, <<MainPy>>)
R3 == Record("3", Hash3, JohnSmith, PyStr(<<"j", "s", "m", "@", "x">>), "3", FixAnotherBug, <<>>)
\* a record whose optional author_email is null and whose commit_date is not
\* a date
R4 == [Record("4", Hash4, JaneSmith, PyNone, "1", FixBug, <<AuthPy>>)
         EXCEPT !["commit_date"] = PyStr(<<"y", "e", "s", "t", "e", "r", "d", "a", "y">>)]

Without(d, k) == [f \in DOMAIN d \ {k} |-> d[f]]

ValidRecords == {R1, R2, R3, R4}

\* records that break one rule of _validate_commit_data
InvalidRecords ==
  {Without(R1, f) : f \in {"id", "hash", "author", "message", "timestamp", "changed_files"}}
  \cup {[R1 EXCEPT ![f] = PyNone] :
          f \in {"id", "hash", "author", "message", "timestamp", "changed_files"}}
  \cup {[R1 EXCEPT !["hash"] = PyStr(ShortHash)],
        [R1 EXCEPT !["hash"] = PyInt(1234567)],
        [R1 EXCEPT !["changed_files"] = PyStr(MainPy)],
        [R1 EXCEPT !["changed_files"] = PyTuple(<<MainPy>>)],
        [R1 EXCEPT !["changed_files"] = PyInt(1)],
        [R1 EXCEPT !["id"] = PyStr(Hash1)],
        [R1 EXCEPT !["timestamp"] = PyStr(<<"y", "e", "s", "t", "e", "r", "d", "a", "y">>)],
        [R1 EXCEPT !["timestamp"] = PyInt(3)]}

Records == ValidRecords \cup InvalidRecords

\* limits passed to read_commits
Limits == {PyNone} \cup {PyInt(k) : k \in 0..(MaxLog + 1)}

\* search criteria
SearchAuthors == {<<"J", "o", "h", "n">>, <<"s", "m", "i", "t", "h">>}
SearchMessages == {<<"b", "u", "g">>, <<"A", "D", "D">>}
AuthorCriteria == {[author |-> PyStr(a)] : a \in SearchAuthors}
MessageCriteria == {[message |-> PyStr(m)] : m \in SearchMessages}
BothCriteria ==
  {[author |-> PyStr(a), message |-> PyStr(m)] : a \in SearchAuthors, m \in SearchMessages}
OtherCriteria ==
  {NoDict,
   [author |-> EmptyStr, message |-> PyNone],
   [files |-> PyStr(<<"M", "A", "I", "N", ".", "p", "y">>)],
   [date_from |-> PyStr(IsoDay("2"))],
   [date_to |-> PyStr(IsoDay("2"))],
   [date_from |-> PyStr(<<DatePrefix, "2">>)]}
Criteria == AuthorCriteria \cup MessageCriteria \cup BothCriteria \cup OtherCriteria

\* what git prints for the commits of the sample repository: the lines of
\* show --format, of show --name-only, and of show --stat (each line split
\* at its commas, each part as its digits and its wording)
OutFull ==
  [meta |-> <<<<"h", "5", "0", "0", "0", "0", "0">>, JohnDoe, <<"j", "d", "@", "x">>,
              <<"Mon Jan ", "2", " 12:00:00 2023", " +0000">>, FixBug,
              <<"o", "k">>, <<>> >>,
   names |-> << <<>>, MainPy, <<" ">> >>,
   stat |-> << << [digits |-> <<1, 5>>, word |-> " main.py | +-"] >>,
               << [digits |-> <<1>>, word |-> " file changed"],
                  [digits |-> <<1, 0>>, word |-> " insertions(+)"],
                  [digits |-> <<5>>, word |-> " deletions(-)"] >> >>]
OutRawDate ==
  [meta |-> <<<<"h", "6", "0", "0", "0", "0", "0">>, JaneSmith, <<"j", "s", "@", "x">>, <<"2 days ago">>, AddFeature>>,
   names |-> <<>>,
   stat |-> << << [digits |-> <<1>>, word |-> " file changed"],
                  [digits |-> <<3>>, word |-> " insertions(+)"] >> >>]
OutShortHash == [OutFull EXCEPT !.meta[1] = ShortHash]
OutTruncated == [OutFull EXCEPT !.meta = <<<<"h", "5", "0", "0", "0", "0", "0">>, JohnDoe>>]
GitOutputs == {OutFull, OutRawDate, OutShortHash, OutTruncated}

\* more --stat outputs: a commit that only deletes, and one that changes no
\* file (test_get_commit_stats_only_deletions, test_get_commit_stats_parse_error)
OutOnlyDeletions ==
  [OutFull EXCEPT !.stat = << << [digits |-> <<1>>, word |-> " file changed"],
                                 [digits |-> <<7>>, word |-> " deletions(-)"] >> >>]
OutNoStat == [OutFull EXCEPT !.stat = <<>>]
StatOutputs == {OutOnlyDeletions, OutNoStat}

\* the environments of one extractor call: any set of git invocations fails
ExtractEnvs ==
  [isRepo : {TRUE}, failing : SUBSET GitCommands, out : GitOutputs \cup StatOutputs]

\* the records appended, and the searches run, around a write that is cut short
CrashRecords == {R1, R4}
CrashCuts == {"none", "torn"}

\* the environments of one orchestrator call about a commit: the directory
\* is not a repository; one git invocation fails; git prints one of the
\* sample outputs
CommitEnvs ==
  {[isRepo |-> FALSE, failing |-> {}, out |-> OutFull]}
  \cup {[isRepo |-> TRUE, failing |-> f, out |-> OutFull] :
          f \in {{c} : c \in GitCommands} \cup {{"show-name-only", "show-stat"}}}
  \cup {[isRepo |-> TRUE, failing |-> {}, out |-> o] : o \in GitOutputs}

\* the environments of one get_repository_info call
InfoEnvs ==
  [isRepo : BOOLEAN, failing : SUBSET InfoCommands,
   remote : {<<"u", "\n">>}, branch : {<<"m", "a", "i", "n", "\n">>},
   count : {<<4, 2>>, <<>>}, date : {<<DatePrefix, "2">>}]

\* the inputs of the store operations when they run next to the orchestrator
TrackedRecords == {R1, R4, Without(R1, "author")}
TrackedLimits == {PyNone, PyInt(1)}
TrackedCriteria == {NoDict, [author |-> PyStr(<<"J", "o", "h", "n">>)]}

\* the records, limits and criteria of the scans: criteria that are empty,
\* or whose every value is empty or null, and one that selects
ScanRecords == {R1, R3, R4}
ScanLimits == {PyNone, PyInt(0), PyInt(1)}
ScanCriteria ==
  {NoDict,
   [author |-> EmptyStr, message |-> PyNone],
   [date_from |-> EmptyStr, date_to |-> PyNone, files |-> EmptyStr],
   [message |-> PyStr(<<"b", "u", "g">>)]}

\* ---------------------------------------------------------- retry_on_error
\* the exceptions func raises: a built-in one, and two of the application's
\* own (CraftNudgeError subclasses carry error_code and details; "None" is
\* the value None, "absent" a key that is not in the dict)
NoDetails == [k \in {} |-> 0]
ValueErr ==
  [type |-> "ValueError", craft |-> FALSE, error_code |-> "absent", details |-> NoDetails]
GitRepositoryErr ==
  [type |-> "GitRepositoryError", craft |-> TRUE, error_code |-> "None",
   details |-> NoDetails]
ValidationErr ==
  [type |-> "ValidationError", craft |-> TRUE, error_code |-> "MISSING_FIELDS",
   details |-> [missing_fields |-> 1]]
NoError == [type |-> "", craft |-> FALSE, error_code |-> "absent", details |-> NoDetails]
FuncErrors == {ValueErr, GitRepositoryErr, ValidationErr}

\* handle_error(error, context, error_code, details): the envelope; the
\* attributes of a CraftNudgeError replace the error_code and details passed
HandleError(error, error_code, details) ==
  IF error.craft
  THEN [status |-> "error", error_type |-> error.type, attempts |-> 0,
        error_code |-> error.error_code, details |-> error.details]
  ELSE [status |-> "error", error_type |-> error.type, attempts |-> 0,
        error_code |-> IF error_code # "" THEN error_code ELSE "absent",
        details |-> details]

\* what retry_on_error returned: nothing yet
NoResult ==
  [status |-> "", error_type |-> "", attempts |-> 0, error_code |-> "absent",
   details |-> NoDetails]

\* no retry_on_error call has been made
RetryIdle ==
  [pc |-> "idle", max_retries |-> 0, named |-> TRUE, attempt |-> 0, calls |-> 0,
   sleeps |-> 0, current_delay |-> 0, backoff_factor |-> 1, last_error |-> NoError,
   result |-> NoResult]

\* the inputs of retry_on_error: max_retries, whether func has a __name__
\* (a functools.partial has none), delay and backoff_factor
RetryCounts == 0..MaxRetries
Delays == {1}
BackoffFactors == {1, 2}

\* ------------------------------------------------------------ configuration
\* a YAML value: a scalar or a mapping
CfgStr(x) == [t |-> "str", s |-> x, m |-> <<>>]
CfgDict(f) == [t |-> "dict", s |-> "", m |-> f]

\* deep_merge(base, updates) on two mappings
RECURSIVE DeepMerge(_, _)
DeepMerge(base, updates) ==
  [k \in DOMAIN base \cup DOMAIN updates |->
     IF k \notin DOMAIN updates THEN base[k]
     ELSE IF k \in DOMAIN base /\ base[k].t = "dict" /\ updates[k].t = "dict"
     THEN CfgDict(DeepMerge(base[k].m, updates[k].m))
     ELSE updates[k]]

RequiredSections == <<"app", "data_store", "services", "logging">>
RequiredServices == <<"commit_tracker", "analytics", "notifications", "api_gateway">>
ValidLevels == {"DEBUG", "INFO", "WARNING", "ERROR", "CRITICAL"}

\* validate_config: "ok" or the exception type raised
ValidateConfig(c) ==
  IF \E i \in 1..Len(RequiredSections) :
       RequiredSections[i] \notin DOMAIN c \/ c[RequiredSections[i]].t # "dict"
  THEN "ConfigurationError"
  ELSE IF "base_path" \notin DOMAIN c["data_store"].m THEN "ConfigurationError"
  ELSE IF \E i \in 1..Len(RequiredServices) :
            \/ RequiredServices[i] \notin DOMAIN c["services"].m
            \/ c["services"].m[RequiredServices[i]].t # "dict"
  THEN "ConfigurationError"
  ELSE IF "level" \notin DOMAIN c["logging"].m THEN "ConfigurationError"
  ELSE IF c["logging"].m["level"].t # "str"
          \/ c["logging"].m["level"].s \notin ValidLevels
  THEN "ConfigurationError"
  ELSE "ok"

\* the default configuration of create_default_config, cut down to the keys
\* validate_config reads
Enabled == CfgDict([enabled |-> CfgStr("True")])
DefaultConfig ==
  [app |-> CfgDict([name |-> CfgStr("CraftNudge AI Agent")]),
   data_store |-> CfgDict([base_path |-> CfgStr("./shared/data-store")]),
   services |-> CfgDict([commit_tracker |-> Enabled, analytics |-> Enabled,
                         notifications |-> Enabled, api_gateway |-> Enabled]),
   logging |-> CfgDict([level |-> CfgStr("INFO")])]

\* what the configuration file can hold: nothing (absent), a mapping, or
\* YAML that is not a mapping
NoFile == [exists |-> FALSE, isDict |-> FALSE, content |-> <<>>]
FileOf(c) == [exists |-> TRUE, isDict |-> TRUE, content |-> c]
ScalarFile == [exists |-> TRUE, isDict |-> FALSE, content |-> <<>>]
FileEdits ==
  {NoFile, ScalarFile, FileOf(DefaultConfig),
   FileOf([DefaultConfig EXCEPT !["logging"] = CfgDict([level |-> CfgStr("DEBUG")])]),
   FileOf([DefaultConfig EXCEPT !["logging"] = CfgDict([level |-> CfgStr("LOUD")])]),
   FileOf([k \in {"app", "data_store", "services"} |-> DefaultConfig[k]])}

\* the updates passed to update_config
Updates ==
  {[k \in {} |-> CfgStr("")],
   [logging |-> CfgDict([level |-> CfgStr("DEBUG")])],
   [logging |-> CfgDict([level |-> CfgStr("LOUD")])],
   [logging |-> CfgStr("off")],
   [services |-> CfgDict([analytics |-> CfgStr("off")])],
   [extra |-> CfgStr("1")]}

\* _config_cache: None, or a configuration
NoCache == [none |-> TRUE, value |-> <<>>]
Cached(c) == [none |-> FALSE, value |-> c]

\* load_config_file then validate_config inside get_config: the
\* configuration, or raised
LoadConfigFile(file) ==
  IF ~file.isDict THEN [raised |-> TRUE, value |-> <<>>]
  ELSE IF ValidateConfig(file.content) # "ok" THEN [raised |-> TRUE, value |-> <<>>]
  ELSE [raised |-> FALSE, value |-> file.content]

\* get_config() on [cache, file]: what it returns or raises, and the cache
\* and the file afterwards; a missing file is created with the defaults
GetConfig(cache, file) ==
  IF ~cache.none
  THEN [raised |-> FALSE, value |-> cache.value, cache |-> cache, file |-> file]
  ELSE LET f == IF file.exists THEN file ELSE FileOf(DefaultConfig)
           r == LoadConfigFile(f)
       IN IF r.raised
          THEN [raised |-> TRUE, value |-> <<>>, cache |-> cache, file |-> f]
          ELSE [raised |-> FALSE, value |-> r.value, cache |-> Cached(r.value),
                file |-> f]

\* reload_config(): the cache is cleared, then get_config()
ReloadConfig(cache, file) == GetConfig(NoCache, file)

\* update_config(updates): the merged configuration is stored in the cache
\* before it is validated
UpdateConfig(cache, file, updates) ==
  LET g == GetConfig(cache, file)
  IN IF g.raised THEN g
     ELSE LET merged == DeepMerge(g.value, updates)
          IN [raised |-> ValidateConfig(merged) # "ok",
              value |-> IF ValidateConfig(merged) # "ok" THEN <<>> ELSE merged,
              cache |-> Cached(merged), file |-> g.file]

\* the module after import: nothing cached, no call made, no file written
ConfigInit ==
  [cache |-> NoCache, file |-> NoFile, op |-> "none", raised |-> FALSE,
   before |-> NoCache]

\* ------------------------------------------------------------ state machine
VARIABLES
  store,     \* the commits file: [exists, lines]
  appended,  \* the dicts of the write_commit calls that succeeded, in order
  last,      \* the last operation, its inputs and what it returned
  retry,     \* the retry_on_error call in progress, or the last one
  config     \* the configuration: [cache, file] and the last call on it

vars == <<store, appended, last, retry, config>>

\* no git environment: the operation runs no extractor
NoEnv == [isRepo |-> FALSE, failing |-> {}]

Idle ==
  [op |-> "none", status |-> "", error_type |-> "", rec |-> NoDict,
   limit |-> PyNone, criteria |-> NoDict, commits |-> <<>>, count |-> 0,
   commit_data |-> NoDict, wrote |-> "", calls |-> <<>>, info |-> NoInfo,
   isRepo |-> FALSE, env |-> NoEnv]

Init ==
  /\ store = [exists |-> FALSE, lines |-> <<>>]
  /\ appended = <<>>
  /\ last = Idle
  /\ retry = RetryIdle
  /\ config = ConfigInit

\* the ids already in the log, and the next value uuid4 produces
UsedIds == {Loads(store.lines[i])["id"] : i \in 1..Len(store.lines)}
FreshId ==
  Uuid4(CHOOSE k \in 1..Len(UuidChars) :
          /\ PyStr(Uuid4(k)) \notin UsedIds
          /\ \A j \in 1..(k - 1) : PyStr(Uuid4(j)) \in UsedIds)

\* DataWriter.write_commit(r)
AppendOp(r, io) ==
  /\ LET w == WriteCommit(store, r, io)
     IN /\ store' = w.store
        /\ appended' = IF w.status = "success" THEN Append(appended, r) ELSE appended
        /\ last' = [Idle EXCEPT !.op = "Append", !.status = w.status,
                                !.error_type = w.error_type, !.rec = r]
  /\ UNCHANGED <<retry, config>>

\* mutation of ReadAllOp: reading creates the commits file
ReadAllOpTouching(limit) ==
  /\ LET r == ReadCommits(store, limit)
     IN last' = [Idle EXCEPT !.op = "ReadAll", !.status = r.status,
                             !.limit = limit, !.commits = r.commits]
  /\ store' = [store EXCEPT !.exists = TRUE]
  /\ UNCHANGED <<appended, retry, config>>

\* DataWriter.read_commits(limit)
ReadAllOp(limit) ==
  /\ LET r == ReadCommits(store, limit)
     IN last' = [Idle EXCEPT !.op = "ReadAll", !.status = r.status,
                             !.limit = limit, !.commits = r.commits]
  /\ UNCHANGED <<store, appended, retry, config>>

\* DataWriter.get_commit_count()
CountOp ==
  /\ LET r == GetCommitCount(store)
     IN last' = [Idle EXCEPT !.op = "Count", !.status = r.status, !.count = r.count]
  /\ UNCHANGED <<store, appended, retry, config>>

\* DataWriter.search_commits(criteria)
SearchOp(criteria) ==
  /\ LET r == SearchCommits(store, criteria)
     IN last' = [Idle EXCEPT !.op = "Search", !.status = r.status,
                             !.criteria = criteria, !.commits = r.commits]
  /\ UNCHANGED <<store, appended, retry, config>>

\* the state change common to the two logging entry points
LogOp(name, env, r) ==
  /\ store' = r.store
  /\ appended' = IF r.wrote = "success" THEN Append(appended, r.commit_data)
                 ELSE appended
  /\ last' = [Idle EXCEPT !.op = name, !.status = r.status,
                          !.error_type = r.error_type,
                          !.commit_data = r.commit_data, !.wrote = r.wrote,
                          !.calls = r.calls, !.isRepo = env.isRepo,
                          !.env = env]
  /\ UNCHANGED <<retry, config>>

\* CommitTracker.log_latest_commit()
LogLatestOp(env, io) ==
  /\ LogOp("LogLatest", env, LogLatestCommit(store, env, io, FreshId))

\* CommitTracker.log_commit_by_hash(h)
LogByHashOp(env, io) ==
  /\ LogOp("LogByHash", env, LogCommitByHash(store, env, io, FreshId))

\* CommitTracker.get_repository_info()
GetRepositoryInfoOp(env) ==
  /\ LET r == GetRepositoryInfo(env)
     IN last' = [Idle EXCEPT !.op = "GetRepositoryInfo", !.status = r.status,
                             !.info = r.info, !.calls = r.calls,
                             !.isRepo = env.isRepo]
  /\ UNCHANGED <<store, appended, retry, config>>

\* what a direct call of the extractor leaves in 'last'; g is what the
\* extraction gave
Extracted(name, env, g) ==
  [Idle EXCEPT !.op = name,
               !.status = IF g.raised THEN "error" ELSE "success",
               !.error_type = IF g.raised THEN "GitCommandError" ELSE "",
               !.commit_data = g.data, !.calls = g.calls,
               !.isRepo = env.isRepo, !.env = env]

\* GitParser.get_latest_commit() called directly
GetLatestCommitOp(env) ==
  /\ LET g == GetLatestCommit(env)
     IN last' = Extracted("GetLatest", env, g)
  /\ UNCHANGED <<store, appended, retry, config>>

\* GitParser.get_commit_by_hash(h) called directly
GetCommitByHashOp(env) ==
  /\ LET g == GetCommitByHash(env)
     IN last' = Extracted("GetByHash", env, g)
  /\ UNCHANGED <<store, appended, retry, config>>

\* GitParser.get_repository_info() called directly
ParserInfoOp(env) ==
  /\ last' = [Idle EXCEPT !.op = "ParserInfo", !.status = "success",
                          !.info = ParserRepositoryInfo(env),
                          !.calls = <<"config", "branch", "rev-list", "log">>,
                          !.isRepo = env.isRepo, !.env = env]
  /\ UNCHANGED <<store, appended, retry, config>>

\* a write_commit(r) that is cut short after validation (the process dies):
\* nothing has reached the file yet, or the first bytes of the line have
CrashOp(r, cut) ==
  /\ ~HashSliceRaises(r)
  /\ ValidateCommitData(r) = "ok"
  /\ store' = [exists |-> TRUE,
               lines |-> IF cut = "none" \/ (store.lines # <<>>
                                              /\ store.lines[Len(store.lines)] = TornLine)
                         THEN store.lines
                         ELSE Append(store.lines, TornLine)]
  /\ appended' = appended
  /\ last' = [Idle EXCEPT !.op = "Crash", !.rec = r]
  /\ UNCHANGED <<retry, config>>

\* the store on its own
StoreAppend ==
  \E r \in Records, io \in IoOutcomes : Len(store.lines) < MaxLog /\ AppendOp(r, io)
StoreReadAll == \E limit \in Limits : ReadAllOp(limit)
StoreCount == CountOp
StoreSearch == \E criteria \in Criteria : SearchOp(criteria)

StoreNext == StoreAppend \/ StoreReadAll \/ StoreCount \/ StoreSearch

StoreSpec == Init /\ [][StoreNext]_vars

\* the orchestrator with its store
TrackedAppend ==
  \E r \in TrackedRecords, io \in IoOutcomes :
     Len(store.lines) < MaxTracked /\ AppendOp(r, io)
TrackedReadAll == \E limit \in TrackedLimits : ReadAllOp(limit)
TrackedCount == CountOp
TrackedSearch == \E criteria \in TrackedCriteria : SearchOp(criteria)
LogLatest ==
  \E env \in CommitEnvs, io \in IoOutcomes :
     Len(store.lines) < MaxTracked /\ LogLatestOp(env, io)
LogByHash ==
  \E env \in CommitEnvs, io \in IoOutcomes :
     Len(store.lines) < MaxTracked /\ LogByHashOp(env, io)
RepositoryInfo == \E env \in InfoEnvs : GetRepositoryInfoOp(env)

Next ==
  \/ TrackedAppend
  \/ TrackedReadAll
  \/ TrackedCount
  \/ TrackedSearch
  \/ LogLatest
  \/ LogByHash
  \/ RepositoryInfo

Spec == Init /\ [][Next]_vars

\* the extractor on its own
GetLatest == \E env \in ExtractEnvs : GetLatestCommitOp(env)
GetByHash == \E env \in ExtractEnvs : GetCommitByHashOp(env)
ParserInfo == \E env \in InfoEnvs : ParserInfoOp(env)

ExtractNext == GetLatest \/ GetByHash \/ ParserInfo

ExtractSpec == Init /\ [][ExtractNext]_vars

\* the store when a write can be cut short
CrashAppend ==
  \E r \in CrashRecords, io \in IoOutcomes :
     Len(store.lines) < MaxLog /\ AppendOp(r, io)
Crash ==
  \E r \in CrashRecords, cut \in CrashCuts :
     Len(store.lines) < MaxLog /\ CrashOp(r, cut)
CrashReadAll == \E limit \in TrackedLimits : ReadAllOp(limit)
CrashCount == CountOp
CrashSearch == \E criteria \in TrackedCriteria : SearchOp(criteria)

CrashNext == CrashAppend \/ Crash \/ CrashReadAll \/ CrashCount \/ CrashSearch

CrashSpec == Init /\ [][CrashNext]_vars

\* retry_on_error(func, max_retries, delay, backoff_factor) is entered
RetryOnErrorOp(m, named, delay, backoff_factor) ==
  /\ retry.pc \in {"idle", "returned"}
  /\ retry' = [RetryIdle EXCEPT !.pc = "call", !.max_retries = m, !.named = named,
                                !.current_delay = delay,
                                !.backoff_factor = backoff_factor]
  /\ UNCHANGED <<store, appended, last, config>>

\* one pass of the loop body: func returns (raised = FALSE) or raises e
FuncOp(raised, e) ==
  /\ retry.pc = "call"
  /\ retry' =
       IF ~raised
       THEN [retry EXCEPT !.pc = "returned", !.calls = @ + 1,
                          !.result = [NoResult EXCEPT !.status = "success",
                                                      !.attempts = retry.attempt + 1]]
       ELSE [retry EXCEPT !.pc = IF retry.attempt < retry.max_retries
                                 THEN "sleep" ELSE "exhausted",
                          !.calls = @ + 1, !.last_error = e]
  /\ UNCHANGED <<store, appended, last, config>>

\* time.sleep(current_delay), the delay grows, the loop goes round
SleepOp ==
  /\ retry.pc = "sleep"
  /\ retry' = [retry EXCEPT !.pc = "call", !.sleeps = @ + 1,
                            !.current_delay = @ * retry.backoff_factor,
                            !.attempt = @ + 1]
  /\ UNCHANGED <<store, appended, last, config>>

\* the loop is over: the return through handle_error; reading func.__name__
\* for the context raises AttributeError when func has none
ExhaustedOp ==
  /\ retry.pc = "exhausted"
  /\ retry' =
       [retry EXCEPT
          !.pc = "returned",
          !.result =
             IF ~retry.named
             THEN [NoResult EXCEPT !.status = "raise", !.error_type = "AttributeError"]
             ELSE HandleError(retry.last_error, "MAX_RETRIES_EXCEEDED",
                              [max_retries |-> retry.max_retries,
                               attempts |-> retry.max_retries + 1])]
  /\ UNCHANGED <<store, appended, last, config>>

\* get_config()
GetConfigOp ==
  /\ LET g == GetConfig(config.cache, config.file)
     IN config' = [cache |-> g.cache, file |-> g.file, op |-> "get_config",
                   raised |-> g.raised, before |-> config.cache]
  /\ UNCHANGED <<store, appended, last, retry>>

\* reload_config()
ReloadConfigOp ==
  /\ LET g == ReloadConfig(config.cache, config.file)
     IN config' = [cache |-> g.cache, file |-> g.file, op |-> "reload_config",
                   raised |-> g.raised, before |-> config.cache]
  /\ UNCHANGED <<store, appended, last, retry>>

\* update_config(updates)
UpdateConfigOp(updates) ==
  /\ LET g == UpdateConfig(config.cache, config.file, updates)
     IN config' = [cache |-> g.cache, file |-> g.file, op |-> "update_config",
                   raised |-> g.raised, before |-> config.cache]
  /\ UNCHANGED <<store, appended, last, retry>>

\* the configuration file is edited, or removed, outside the program
EditFileOp(file) ==
  /\ config' = [config EXCEPT !.file = file, !.op = "edit", !.raised = FALSE,
                              !.before = config.cache]
  /\ UNCHANGED <<store, appended, last, retry>>

\* retry_on_error on its own
RetryOnError ==
  \E m \in RetryCounts, named \in BOOLEAN, delay \in Delays,
     backoff_factor \in BackoffFactors :
       RetryOnErrorOp(m, named, delay, backoff_factor)
FuncReturns == FuncOp(FALSE, NoError)
FuncRaises == \E e \in FuncErrors : FuncOp(TRUE, e)
Sleep == SleepOp
Exhausted == ExhaustedOp

RetryNext == RetryOnError \/ FuncReturns \/ FuncRaises \/ Sleep \/ Exhausted

RetrySpec == Init /\ [][RetryNext]_vars

\* the configuration manager on its own
ConfigGet == GetConfigOp
ConfigReload == ReloadConfigOp
ConfigUpdate == \E updates \in Updates : UpdateConfigOp(updates)
ConfigEdit == \E file \in FileEdits : EditFileOp(file)

ConfigNext == ConfigGet \/ ConfigReload \/ ConfigUpdate \/ ConfigEdit

ConfigSpec == Init /\ [][ConfigNext]_vars

\* the store under scans alone: searches whose criteria are empty or falsy
ScanAppend ==
  \E r \in ScanRecords : Len(store.lines) < MaxTracked /\ AppendOp(r, "ok")
ScanReadAll == \E limit \in ScanLimits : ReadAllOp(limit)
ScanCount == CountOp
ScanSearch == \E criteria \in ScanCriteria : SearchOp(criteria)

ScanNext == ScanAppend \/ ScanReadAll \/ ScanCount \/ ScanSearch

ScanSpec == Init /\ [][ScanNext]_vars

\* ------------------------------------------------------------------ claims
IsPrefix(p, q) == Len(p) <= Len(q) /\ SubSeq(q, 1, Len(p)) = p

SeqSet(q) == {q[i] : i \in 1..Len(q)}

LogOps == {"LogLatest", "LogByHash"}

\* C1: after n successful appends r1..rn on an initially absent log, ReadAll
\* with no limit returns [rn, ..., r1]
C1_ReadAllReversesAppendOrder ==
  (last.op = "ReadAll" /\ last.limit = PyNone)
    => (last.status = "success" /\ last.commits = Reverse(appended))

C1_Witness ==
  /\ last.op = "ReadAll" /\ last.limit = PyNone
  /\ appended = <<R1, R2, R3>>
  /\ last.commits = <<R3, R2, R1>>

\* C2: ReadAll(limit=k) with 1 <= k <= n returns the k most recently appended
\* records [rn, ..., r(n-k+1)]
C2_LimitSelectsMostRecent ==
  (last.op = "ReadAll" /\ last.limit.t = "int" /\ last.limit.n \in 1..Len(appended))
    => last.commits = SubSeq(Reverse(appended), 1, last.limit.n)

\* the rules the claim C3 lists: a required field absent or null, a hash
\* shorter than 7 characters, changed_files not a list
BreaksListedRule(r) ==
  \/ \E i \in 1..Len(RequiredFields) :
        RequiredFields[i] \notin DOMAIN r \/ r[RequiredFields[i]].t = "none"
  \/ (r["hash"].t = "str" /\ Len(r["hash"].s) < 7)
  \/ r["changed_files"].t # "list"

\* C3: an Append that breaks one of the listed rules returns an error and
\* leaves the log as it was (absent stays absent, present keeps its lines)
C3_InvalidAppendLeavesLog ==
  [][(last'.op = "Append" /\ BreaksListedRule(last'.rec))
       => (last'.status = "error" /\ store' = store)]_vars

C3_Witness ==
  /\ last.op = "Append" /\ last.status = "error"
  /\ last.rec = [R1 EXCEPT !["changed_files"] = PyStr(MainPy)]
  /\ Len(store.lines) = 2

\* C4: the log is append-only: every step keeps the earlier lines as a prefix
\* and a present file stays present
C4_AppendOnly ==
  [][IsPrefix(store.lines, store'.lines) /\ (store.exists => store'.exists)]_vars

C4_Witness ==
  /\ last.op = "LogByHash" /\ last.wrote = "success"
  /\ Len(store.lines) = 2
  /\ Loads(store.lines[1]) = R1

\* C5: a success envelope of LogLatest/LogByHash means the record of the
\* envelope is the newest line of the log, and a failed write_commit makes the
\* orchestrator return an error envelope
C5_SuccessMeansAppended ==
  (last.op \in LogOps)
    => /\ (last.status = "success"
             => /\ store.lines # <<>>
                /\ Loads(store.lines[Len(store.lines)]) = last.commit_data)
       /\ (last.wrote = "error" => last.status = "error")

\* C6: every failure inside LogLatest, LogByHash or GetRepositoryInfo (no
\* repository, extraction, validation, append) comes back as a status-error
\* envelope
C6_EveryFailureIsErrorEnvelope ==
  (last.op \in LogOps \cup {"GetRepositoryInfo"})
    => /\ last.status \in {"success", "error"}
       /\ (~last.isRepo \/ last.error_type # "" \/ last.wrote = "error")
            => last.status = "error"

C8_RoundTrip ==
  (last.op = "Append" /\ last.status = "success")
    => /\ ReadCommits(store, PyNone).status = "success"
       /\ ReadCommits(store, PyNone).commits # <<>>
       /\ ReadCommits(store, PyNone).commits[1] = last.rec

C8_Witness ==
  /\ last.op = "Append" /\ last.status = "success"
  /\ last.rec = R4
  /\ Len(store.lines) = 3

\* the result of the two-predicate search against the two one-predicate
\* searches: it fails exactly when one of them fails, and otherwise holds
\* exactly the records both of them hold
AndOfSingles(a, m) ==
  LET both == SearchCommits(store, [author |-> PyStr(a), message |-> PyStr(m)])
      byAuthor == SearchCommits(store, [author |-> PyStr(a)])
      byMessage == SearchCommits(store, [message |-> PyStr(m)])
  IN /\ (both.status = "success")
          <=> (byAuthor.status = "success" /\ byMessage.status = "success")
     /\ (both.status = "success")
          => SeqSet(both.commits) = SeqSet(byAuthor.commits) \cap SeqSet(byMessage.commits)

\* C9: Search({author: a, message: m}) returns the intersection of
\* Search({author: a}) and Search({message: m})
C9_SearchIsIntersection ==
  \A a \in SearchAuthors, m \in SearchMessages : AndOfSingles(a, m)

C9_Witness ==
  /\ last.op = "Search" /\ last.status = "success"
  /\ last.criteria = [author |-> PyStr(<<"J", "o", "h", "n">>),
                      message |-> PyStr(<<"A", "D", "D">>)]
  /\ last.commits = <<>>
  /\ appended = <<R1, R2, R3>>

IsMatch(c, criteria) == MatchesCriteria(c, criteria) = "match"

\* C10: the list Search returns is the sub-list of ReadAll() made of the
\* matching records, most recent first; after John Doe, Jane Smith, John
\* Smith, Search({author: John}) is [h3, h1]
C10_SearchKeepsReadOrder ==
  (last.op = "Search" /\ last.status = "success")
    => /\ last.commits =
            SelectSeq(ReadCommits(store, PyNone).commits,
                      LAMBDA c : IsMatch(c, last.criteria))
       /\ (appended = <<R1, R2, R3>>
             /\ last.criteria = [author |-> PyStr(<<"J", "o", "h", "n">>)])
            => last.commits = <<R3, R1>>

C10_Witness ==
  /\ last.op = "Search" /\ last.status = "success"
  /\ last.criteria = [author |-> PyStr(<<"J", "o", "h", "n">>)]
  /\ appended = <<R1, R2, R3>>
  /\ last.commits = <<R3, R1>>

C12_AbsentLogReadsEmpty ==
  ~store.exists =>
    /\ \A limit \in Limits :
         ReadCommits(store, limit) = [status |-> "success", commits |-> <<>>]
    /\ GetCommitCount(store) = [status |-> "success", count |-> 0]
    /\ \A criteria \in Criteria :
         SearchCommits(store, criteria) = [status |-> "success", commits |-> <<>>]
    /\ last.op \in {"ReadAll", "Count", "Search"}
         => last.status = "success" /\ last.commits = <<>> /\ last.count = 0

\* a search by date has just run against the absent file
C12_Witness ==
  /\ ~store.exists
  /\ last.op = "Search"
  /\ last.criteria = [date_from |-> PyStr(<<DatePrefix, "2">>)]
  /\ last.status = "success"
  /\ last.commits = <<>>

\* whether a stored value is a string that datetime.fromisoformat accepts
ParsesAsDate(v) == v.t = "str" /\ FromIsoFormat(ReplaceZ(v.s)).ok

\* the record on line i of the log
Stored(i) == Loads(store.lines[i])

\* C13 as stated: Append validates commit_date as well as timestamp, so an
\* Append of a record whose commit_date does not parse is an error and every
\* record in the log has a commit_date that parses
C13_CommitDateValidated ==
  /\ \A i \in 1..Len(store.lines) :
       ParsesAsDate(Get(Stored(i), "commit_date", EmptyStr))
  /\ (last.op = "Append" /\ ~ParsesAsDate(Get(last.rec, "commit_date", EmptyStr)))
       => last.status = "error"

\* C13 amended: Append validates timestamp but not commit_date: a record
\* whose timestamp does not parse is rejected with an error and is not
\* persisted, so every record in the log has a timestamp that parses; a
\* record is not rejected on account of its commit_date
C13_TimestampValidated ==
  /\ \A i \in 1..Len(store.lines) : ParsesAsDate(Stored(i)["timestamp"])
  /\ \A r \in Records :
       ~ParsesAsDate(Get(r, "timestamp", PyNone))
         => /\ WriteCommit(store, r, "ok").status = "error"
            /\ WriteCommit(store, r, "ok").store = store
  /\ (last.op = "Append" /\ ~ParsesAsDate(Get(last.rec, "timestamp", PyNone)))
       => last.status = "error"
  /\ \A r \in ValidRecords :
       WriteCommit(store, [r EXCEPT !["commit_date"] = R4["commit_date"]], "ok").status
         = "success"

\* the log holds R4, whose commit_date does not parse, and the Append of a
\* record whose timestamp does not parse has just been rejected
C13_Witness ==
  /\ Len(store.lines) = 1
  /\ Stored(1) = R4
  /\ ~ParsesAsDate(Stored(1)["commit_date"])
  /\ last.op = "Append"
  /\ last.rec = [R1 EXCEPT !["timestamp"] = R4["commit_date"]]
  /\ last.status = "error"

\* the log file ends in a torn line that follows n complete records
TornAfter(n) ==
  /\ Len(store.lines) = n + 1
  /\ store.lines[n + 1] = TornLine
  /\ \A i \in 1..n : IsJson(store.lines[i])

\* the store as it was before the write that was cut short
BeforeTorn == [store EXCEPT !.lines = SubSeq(store.lines, 1, Len(store.lines) - 1)]

\* C14: a crash during Append damages at most the record being written: with
\* a partial last line after n complete records, ReadAll(), Count() and
\* Search() still return the n previous records, and a later successful
\* Append adds one readable record
C14_CrashDamagesOnlyTornRecord ==
  \A n \in 0..MaxLog :
    TornAfter(n) =>
      /\ ReadCommits(store, PyNone) = ReadCommits(BeforeTorn, PyNone)
      /\ GetCommitCount(store) = [status |-> "success", count |-> n]
      /\ \A criteria \in TrackedCriteria :
           SearchCommits(store, criteria) = SearchCommits(BeforeTorn, criteria)
      /\ last.op \in {"ReadAll", "Count", "Search"} => last.status = "success"
      /\ \A r \in CrashRecords :
           LET w == WriteCommit(store, r, "ok")
           IN /\ w.status = "success"
              /\ ReadCommits(w.store, PyNone) =
                   [status |-> "success",
                    commits |-> <<r>> \o ReadCommits(BeforeTorn, PyNone).commits]

\* the git invocations whose failure is to fail the extraction
MustSucceed(op) ==
  IF op = "GetLatest" THEN {"rev-parse", "show-format", "show-name-only"}
  ELSE {"cat-file", "show-format", "show-name-only"}

\* C15: during GetLatest and GetByHash a failure of the head-resolution, the
\* metadata or the changed-file-listing invocation gives a tool-failed error
\* and no record; only a failure of the statistics invocation is tolerated
C15_ExtractionFailureIsError ==
  last.op \in {"GetLatest", "GetByHash"} =>
    /\ last.env.failing \cap MustSucceed(last.op) # {}
         => /\ last.status = "error"
            /\ last.error_type = "GitCommandError"
            /\ last.commit_data = NoDict
    /\ (last.env.failing \subseteq {"show-stat"} /\ last.env.out = OutFull)
         => last.status = "success"

\* C16: GetByHash(h) runs the existence check before any extraction
\* invocation; when the check fails the call is an error, none of the
\* metadata, changed-file and statistics invocations is issued, and
\* LogByHash(h) appends nothing
C16_ExistenceCheckFirst ==
  [][(last'.op = "LogByHash" /\ last'.env.isRepo /\ "cat-file" \in last'.env.failing)
       => /\ last'.status = "error"
          /\ last'.error_type = "GitCommandError"
          /\ last'.calls = <<"cat-file">>
          /\ store' = store
          /\ appended' = appended]_vars

\* LogByHash has just failed on a hash the repository does not hold, after
\* one commit had been logged; the existence check is the only invocation
C16_Witness ==
  /\ last.op = "LogByHash"
  /\ last.env.isRepo
  /\ "cat-file" \in last.env.failing
  /\ last.status = "error"
  /\ last.calls = <<"cat-file">>
  /\ Len(store.lines) = 1
  /\ Len(appended) = 1

ClauseOf(out, word) ==
  LET parts == UNION {SeqSet(out.stat[i]) : i \in 1..Len(out.stat)}
      hits == {part \in parts : part.word = word}
  IN IF hits = {} THEN 0 ELSE DigitsValue((CHOOSE part \in hits : TRUE).digits)

\* C18: statistics parsing treats the two clauses independently: a summary
\* with only the insertions clause gives (n, 0), with only the deletions
\* clause (0, m), with both (n, m), with neither (0, 0), and never an error
C18_StatClausesIndependent ==
  (last.op \in {"GetLatest", "GetByHash"} /\ last.status = "success"
     /\ "show-stat" \notin last.env.failing)
    => /\ last.commit_data["insertions"] =
            PyInt(ClauseOf(last.env.out, " insertions(+)"))
       /\ last.commit_data["deletions"] =
            PyInt(ClauseOf(last.env.out, " deletions(-)"))

\* the date-only criteria, and the records whose commit_date is the noon of
\* day d
DateKeys == {"date_from", "date_to"}
OnDay(c, d) == Get(c, "commit_date", EmptyStr) = PyStr(IsoDay(d))

\* C19: the date predicates are inclusive: a record whose commit_date equals
\* date_from, or equals date_to, satisfies the predicate; a record strictly
\* before date_from or strictly after date_to does not
C19_DateBoundsInclusive ==
  /\ \A i \in 1..Len(store.lines) : \A d \in DayChars, b \in DayChars :
       OnDay(Stored(i), d)
         => /\ MatchesCriteria(Stored(i), [date_from |-> PyStr(IsoDay(b))]) = "match"
                 <=> DayNum(d) >= DayNum(b)
            /\ MatchesCriteria(Stored(i), [date_to |-> PyStr(IsoDay(b))]) = "match"
                 <=> DayNum(d) <= DayNum(b)
  /\ \A b \in DayChars :
       (last.op = "Search" /\ last.criteria = [date_from |-> PyStr(IsoDay(b))])
         => /\ last.status = "success"
            /\ \A i \in 1..Len(store.lines) : \A d \in DayChars :
                 OnDay(Stored(i), d)
                   => (Stored(i) \in SeqSet(last.commits) <=> DayNum(d) >= DayNum(b))
  /\ \A b \in DayChars :
       (last.op = "Search" /\ last.criteria = [date_to |-> PyStr(IsoDay(b))])
         => /\ last.status = "success"
            /\ \A i \in 1..Len(store.lines) : \A d \in DayChars :
                 OnDay(Stored(i), d)
                   => (Stored(i) \in SeqSet(last.commits) <=> DayNum(d) <= DayNum(b))

\* the log holds the records of days 1, 2 and 3 and a search from day 2 has
\* returned those of days 3 and 2
C19_Witness ==
  /\ appended = <<R1, R2, R3>>
  /\ last.op = "Search"
  /\ last.criteria = [date_from |-> PyStr(IsoDay("2"))]
  /\ last.commits = <<R3, R2>>

\* a record whose commit_date is a string that does not parse
DateUnparseable(c) ==
  /\ Get(c, "commit_date", EmptyStr).t = "str"
  /\ ~ParsesAsDate(Get(c, "commit_date", EmptyStr))

ReadOps == {"ReadAll", "Count", "Search"}

\* C21: ReadAll, Count and Search are pure reads: a step of one of them
\* leaves the log as it was (an absent file stays absent, a present file
\* keeps its lines) and a ReadAll that follows a ReadAll with the same limit
\* returns the same result
C21_ReadsLeaveLogUnchanged ==
  [][/\ last'.op \in ReadOps => (store' = store /\ appended' = appended)
     /\ (last.op = "ReadAll" /\ last'.op = "ReadAll" /\ last'.limit = last.limit)
          => (last'.status = last.status /\ last'.commits = last.commits)]_vars

\* the log holds R1 and R3 and a ReadAll has returned both, newest first
C21_Witness ==
  /\ appended = <<R1, R3>>
  /\ Len(store.lines) = 2
  /\ last.op = "ReadAll"
  /\ last.limit = PyNone
  /\ last.commits = <<R3, R1>>

\* the date git printed for the sample commit whose date does not reparse
RawDate == OutRawDate.meta[4]

\* C22: when the commit-date line cannot be reparsed, the record extracted
\* carries the raw string as its commit_date, and logging it succeeds: the
\* record passes both validations with that date
C22_RawDateKept ==
  (last.op \in LogOps /\ last.env.isRepo /\ last.env.failing = {}
     /\ last.env.out = OutRawDate)
    => /\ last.status = "success"
       /\ last.commit_data["commit_date"] = PyStr(RawDate)
       /\ TrackerValidate(last.commit_data) = "ok"
       /\ ValidateCommitData(last.commit_data) = "ok"

\* LogLatest has stored the commit whose date git printed as "2 days ago"
C22_Witness ==
  /\ last.op = "LogLatest"
  /\ last.env.out = OutRawDate
  /\ last.wrote = "success"
  /\ FormatCommitDate(RawDate) = RawDate
  /\ Len(store.lines) > 0
  /\ Stored(Len(store.lines))["commit_date"] = PyStr(RawDate)

C24_EachCommandAtMostOnce ==
  /\ last.op = "GetLatest"
       => IsPrefix(last.calls, <<"rev-parse", "show-format", "show-name-only", "show-stat">>)
  /\ last.op = "GetByHash"
       => IsPrefix(last.calls, <<"cat-file", "show-format", "show-name-only", "show-stat">>)

\* GetByHash has failed at the metadata query after the existence check
C24_Witness ==
  /\ last.op = "GetByHash"
  /\ last.status = "error"
  /\ last.calls = <<"cat-file", "show-format">>

\* C25: retry_on_error calls func at most max_retries + 1 times; at the
\* first success it returns status success with attempts = the number of
\* calls, having slept attempts - 1 times; when all max_retries + 1 calls
\* fail it returns the error envelope with error_code MAX_RETRIES_EXCEEDED
\* and details.attempts = max_retries + 1, having slept max_retries times
C25_RetryEnvelope ==
  /\ retry.calls <= retry.max_retries + 1
  /\ (retry.pc = "returned" /\ retry.result.status = "success")
       => /\ retry.result.attempts = retry.calls
          /\ retry.sleeps = retry.result.attempts - 1
  /\ (retry.pc = "returned" /\ retry.result.status # "success")
       => /\ retry.calls = retry.max_retries + 1
          /\ retry.sleeps = retry.max_retries
          /\ retry.result.status = "error"
          /\ retry.result.error_code = "MAX_RETRIES_EXCEEDED"
          /\ "attempts" \in DOMAIN retry.result.details
          /\ retry.result.details["attempts"] = retry.max_retries + 1

Min(a, b) == IF a <= b THEN a ELSE b

\* C26: for a log of n records and every limit k >= 0, ReadAll(limit = k)
\* returns exactly min(k, n) records; ReadAll(limit = 0) returns none
C26_LimitReturnsMin ==
  (last.op = "ReadAll" /\ last.limit.t = "int" /\ last.status = "success")
    => Len(last.commits) = Min(last.limit.n, Len(store.lines))

\* C27: every log built by successful Appends can be scanned: Search returns
\* success, never error, whatever the criteria
C27_SearchNeverErrors ==
  last.op = "Search" => last.status = "success"

\* a date bound in the YYYY-MM-DD form, without UTC offset
DayBound(d) == PyStr(<<DatePrefix, d>>)

\* C28: a date_from bound without UTC offset is applied as a filter over
\* records whose commit_date carries an offset: Search returns success with
\* the records on or after the bound's day
C28_NaiveBoundFilters ==
  \A b \in DayChars :
    (last.op = "Search" /\ last.criteria = [date_from |-> DayBound(b)])
      => /\ last.status = "success"
         /\ \A i \in 1..Len(store.lines) : \A d \in DayChars :
              OnDay(Stored(i), d)
                => (Stored(i) \in SeqSet(last.commits) <=> DayNum(d) >= DayNum(b))

\* criteria that are empty, or whose every value is empty or null
AllFalsy(criteria) == \A k \in DOMAIN criteria : ~Truthy(criteria[k])

\* C29: a Search whose criteria are empty, or hold only empty or null
\* values, matches every record: it returns the list ReadAll returns with
\* no limit
C29_EmptyCriteriaMatchAll ==
  /\ \A criteria \in ScanCriteria :
       AllFalsy(criteria) => SearchCommits(store, criteria) = ReadCommits(store, PyNone)
  /\ (last.op = "Search" /\ AllFalsy(last.criteria))
       => /\ last.status = "success"
          /\ last.commits = ReadCommits(store, PyNone).commits

\* the log holds R1 and R3 and a search whose criteria hold only empty and
\* null values has returned both
C29_Witness ==
  /\ appended = <<R1, R3>>
  /\ last.op = "Search"
  /\ last.criteria = [date_from |-> EmptyStr, date_to |-> PyNone, files |-> EmptyStr]
  /\ last.commits = <<R3, R1>>

\* C30: after any sequence of get_config, reload_config and update_config
\* calls the cached configuration is empty or passes validate_config, and
\* an update_config call that fails leaves the cache as it was
C30_CacheEmptyOrValid ==
  /\ config.cache.none \/ ValidateConfig(config.cache.value) = "ok"
  /\ (config.op = "update_config" /\ config.raised) => config.cache = config.before

====
